---- MODULE Spec2Model ----
(***************************************************************************)
(* Model of src/app.py: the report-line scan of processar_planilha (the    *)
(* record assembler), the per-file branch backfill and the batch loop of   *)
(* the page script.                                                        *)
(*                                                                         *)
(* A spreadsheet cell is a record [t, s, v]: t is the kind of value pandas *)
(* hands to the code, s is str(cell).strip() and v its numeric content.    *)
(*   "na"      blank cell (NaN)                                            *)
(*   "filial"  text containing 'Filial :'; s is the text that follows the  *)
(*             last ' - ' after it, stripped                               *)
(*   "conta"   text starting with '1.2.3.'                                 *)
(*   "digits6" text of exactly six digits, "digitsN" digits of another     *)
(*             length; v is the number the digits spell                    *)
(*   "rs"      text that strips to 'R$'                                    *)
(*   "text"    any other text                                              *)
(*   "num"     a float cell, v its value                                   *)
(*   "date"    a date cell, v its year                                     *)
(* A row is the tuple of the ten cells A..J; a worksheet of ncols columns  *)
(* holds the first ncols of them (row.iloc[i] is row[i + 1]).              *)
(***************************************************************************)
EXTENDS Integers, Sequences, FiniteSets, TLC

VARIABLES
    pc,                     \* position in processar_planilha: "scan", "returned"
    ncols,                  \* width of the current sheet_df, 0 before the first sheet
    filial_atual,
    conta_contabil_atual,
    descricao_conta_atual,
    dados_processados,      \* list of dicts
    last_data_row_info,     \* <<>> for {}, else <<dict>>
    retorno,                \* the value processar_planilha returned
    ultima,                 \* history: the row handled last, [tipo, pendente]
    cabecalho,              \* history: <<row>> of the last AccountHeader row of this sheet
    semItem,                \* history: a header row came after the last ItemLine
    itemAqui,               \* history: the last ItemLine was read in the current sheet
    origem,                 \* history: per record, <<row>> of the AccountHeader before its item line
    preenchido,             \* history: per record, per value line that wrote it: in the item's sheet?
    \* the page script's batch loop (lines 412-430, 572-579)
    pcl,                    \* "loop", then how the script ended
    uploaded_files,
    i,                      \* files taken from uploaded_files so far
    all_data,
    errors,
    dados_combinados,       \* <<>> before line 428, else <<frame>>
    tela,                   \* what st.success, st.error and st.info showed
    chamadas,               \* history: the positions of the files handed to processar_planilha
    \* corrigir_filiais_nao_identificadas on its own
    df_final,
    df_corrigido,           \* <<>> before the call, else <<frame>>
    \* the row loop of lines 229-281 over one given sheet
    sheet_df,               \* [ncols, rows]
    idx,                    \* rows of sheet_df read so far
    locais,                 \* the locals of the scan, as a record
    \* converter_valor on its own
    celula,                 \* the argument, a text as a sequence of characters
    convertido              \* <<>> before the call, else <<amount>>

scanVars == <<pc, ncols, filial_atual, conta_contabil_atual, descricao_conta_atual,
              dados_processados, last_data_row_info, retorno, ultima, cabecalho, semItem,
              itemAqui, origem, preenchido>>
loteVars == <<pcl, uploaded_files, i, all_data, errors, dados_combinados, tela, chamadas>>
filialVars == <<df_final, df_corrigido>>
folhaVars == <<sheet_df, idx, locais>>
valorVars == <<celula, convertido>>
vars == <<scanVars, loteVars, filialVars, folhaVars, valorVars>>

----------------------------------------------------------------------------
\* Bounds of the model.
MaxRegistros == 2
MaxArquivos == 3
MaxLinhas == 4

\* Program constants.
NaoIdentificado == "Não Identificado"
AnoMinimo == 1990

----------------------------------------------------------------------------
\* Cells.
NA == [t |-> "na", s |-> "nan", v |-> 0]
Filial(nome) == [t |-> "filial", s |-> nome, v |-> 0]
Conta(cod) == [t |-> "conta", s |-> cod, v |-> 0]
Digits6(s, v) == [t |-> "digits6", s |-> s, v |-> v]
DigitsN(s, v) == [t |-> "digitsN", s |-> s, v |-> v]
RS == [t |-> "rs", s |-> "R$", v |-> 0]
Text(s) == [t |-> "text", s |-> s, v |-> 0]
Num(v) == [t |-> "num", s |-> ToString(v), v |-> v]
Date(ano) == [t |-> "date", s |-> ToString(ano), v |-> ano]

notna(c) == c.t # "na"
isdigit(c) == c.t \in {"digits6", "digitsN"}

\* pd.to_datetime(cell, errors='coerce'): a date cell keeps its date, a number
\* is a count of nanoseconds since the epoch, anything else coerces to NaT.
NaT == [nat |-> TRUE, ano |-> 0]
to_datetime(c) ==
    CASE c.t = "date" -> [nat |-> FALSE, ano |-> c.v]
      [] c.t = "num" -> [nat |-> FALSE, ano |-> 1970]
      [] OTHER -> NaT

\* padronizar_nome_filial: the upper-cased name is looked up in mapa_nomes and
\* the name itself is returned when it is not a key.
upper(nome) ==
    CASE nome = "Matriz" -> "MATRIZ"
      [] nome = "gw sanea" -> "GW SANEA"
      [] OTHER -> nome

mapa_nomes ==
    ("GENERAL WATER" :> "General Water S/A") @@ ("GW S/A" :> "General Water S/A") @@
    ("G W AGUAS" :> "GW Águas") @@ ("GW ÁGUAS" :> "GW Águas") @@
    ("GW SANEAMENTO" :> "GW Saneamento") @@ ("GW SANEA" :> "GW Saneamento") @@
    ("GW SISTEMAS" :> "GW Sistemas") @@ ("GW SISTEM" :> "GW Sistemas") @@
    ("MATRIZ" :> "GW Sistemas Matriz")

padronizar_nome_filial(nome_filial) ==
    LET nome_upper == upper(nome_filial)
    IN  IF nome_upper \in DOMAIN mapa_nomes THEN mapa_nomes[nome_upper] ELSE nome_filial

----------------------------------------------------------------------------
\* Texts, for converter_valor: a text cell whose characters matter is
\* Str(chars), chars a sequence of one-character strings. An amount read
\* from a text is the decimal fraction m / 10^e, kept with the least e.
Str(chars) == [t |-> "str", s |-> chars, v |-> 0]

Digitos == {"0", "1", "2", "3", "4", "5", "6", "7", "8", "9"}
ValorDigito(c) ==
    CASE c = "0" -> 0 [] c = "1" -> 1 [] c = "2" -> 2 [] c = "3" -> 3 [] c = "4" -> 4
      [] c = "5" -> 5 [] c = "6" -> 6 [] c = "7" -> 7 [] c = "8" -> 8 [] c = "9" -> 9

RECURSIVE Decimal(_, _)
Decimal(m, e) ==
    IF m = 0 THEN [m |-> 0, e |-> 0]
    ELSE IF e > 0 /\ m % 10 = 0 THEN Decimal(m \div 10, e - 1)
    ELSE [m |-> m, e |-> e]

\* str.replace('R$', ''): every occurrence, left to right.
RECURSIVE replace_RS(_)
replace_RS(s) ==
    IF Len(s) < 2 THEN s
    ELSE IF s[1] = "R" /\ s[2] = "$" THEN replace_RS(SubSeq(s, 3, Len(s)))
    ELSE <<s[1]>> \o replace_RS(Tail(s))

\* str.strip()
RECURSIVE strip(_)
strip(s) ==
    IF s = <<>> THEN s
    ELSE IF s[1] = " " THEN strip(Tail(s))
    ELSE IF s[Len(s)] = " " THEN strip(SubSeq(s, 1, Len(s) - 1))
    ELSE s

\* c in s
contem(s, c) == \E k \in DOMAIN s : s[k] = c

\* s.replace(c, '') and s.replace(a, b) for single characters
RECURSIVE remover(_, _)
remover(s, c) ==
    IF s = <<>> THEN s
    ELSE IF s[1] = c THEN remover(Tail(s), c)
    ELSE <<s[1]>> \o remover(Tail(s), c)
trocar(s, a, b) == [k \in DOMAIN s |-> IF s[k] = a THEN b ELSE s[k]]

\* Lines 57-59 with the thousands separator left in place.
separadores_sem_milhar(texto) == trocar(texto, ",", ".")

\* Lines 57-59: what happens to '.' and ',' before float().
separadores(texto) ==
    LET sem_milhar == IF contem(texto, ",") /\ contem(texto, ".")
                      THEN remover(texto, ".")
                      ELSE texto
    IN  trocar(sem_milhar, ",", ".")

\* float(s) on the characters of this model: blanks around the numeral are
\* skipped, then an optional sign, digits and at most one point, with at
\* least one digit; anything else is a ValueError (ok = FALSE). The numeral
\* is read left to right: m collects the digits, e counts those after the
\* point.
RECURSIVE ler_digitos(_, _, _, _, _)
ler_digitos(s, m, e, ponto, algum) ==
    IF s = <<>> THEN [ok |-> algum, m |-> m, e |-> e]
    ELSE IF s[1] \in Digitos
         THEN ler_digitos(Tail(s), 10 * m + ValorDigito(s[1]),
                          IF ponto THEN e + 1 ELSE e, ponto, TRUE)
    ELSE IF s[1] = "." /\ ~ponto THEN ler_digitos(Tail(s), m, e, TRUE, algum)
    ELSE [ok |-> FALSE, m |-> 0, e |-> 0]

float(s) ==
    LET t == strip(s)
        negativo == t # <<>> /\ t[1] = "-"
        lido == ler_digitos(IF negativo THEN Tail(t) ELSE t, 0, 0, FALSE, FALSE)
    IN  [lido EXCEPT !.m = IF negativo THEN 0 - @ ELSE @]

\* Lines 56-59: valor_str as float() gets it.
valor_str(chars) == separadores(strip(replace_RS(chars)))

\* Lines 55-62: the text path of converter_valor.
converter_texto(chars) ==
    LET f == float(valor_str(chars))
    IN  IF f.ok THEN Decimal(f.m, f.e) ELSE Decimal(0, 0)

\* converter_valor on the cells of this model: blank is 0.0, a number is
\* itself, a text goes through float(): digit strings parse, the other texts
\* here ('R$' stripped to '', words, account codes, dates) raise ValueError.
\* A text given by its characters is read character by character.
converter_valor(valor) ==
    CASE valor.t = "na" -> 0
      [] valor.t = "num" -> valor.v
      [] valor.t = "str" -> converter_texto(valor.s)
      [] isdigit(valor) -> valor.v
      [] OTHER -> 0

----------------------------------------------------------------------------
\* The scan state of processar_planilha, as one record, so that the same
\* row step serves the stepwise specification and the whole-file function.
Raised(st) == [st EXCEPT !.raised = TRUE]

\* The dict built for a qualifying item line (lines 248-263).
ItemInfo(st, row, data_aquisicao, nome) ==
    [Arquivo |-> nome,
     Filial |-> st.filial_atual,
     ContaContabil |-> st.conta_contabil_atual,
     DescricaoConta |-> st.descricao_conta_atual,
     DataAquisicao |-> data_aquisicao.ano,
     CodigoItem |-> row[3].s,
     CodigoSubItem |-> IF notna(row[10]) THEN row[10].s ELSE "",
     DescricaoItem |-> IF notna(row[4]) THEN row[4].s ELSE "",
     ValorOriginal |-> 0,
     ValorAtualizado |-> 0,
     DeprecMes |-> 0,
     DeprecExercicio |-> 0,
     DeprecAcumulada |-> 0,
     ValorResidual |-> 0]

\* A slip in line 280: the residual taken from the original value.
ValorResidualDoOriginal(r) == r.ValorOriginal - r.DeprecAcumulada

\* 'Valor Residual' as line 280 computes it from the record just written.
ValorResidualDe(r) == r.ValorAtualizado - r.DeprecAcumulada

\* [converter_valor(v) for v in row.iloc[1:8]]: the slice stops at the sheet's
\* last column.
Valores(row, n) ==
    LET hi == IF n < 8 THEN n ELSE 8
    IN  [k \in 1..(hi - 1) |-> converter_valor(row[k + 1])]

\* Lines 275-280: the value line's amounts written into a record.
Preencher(r, valores) ==
    LET r1 == [r EXCEPT
                 !.ValorOriginal = IF Len(valores) > 1 THEN valores[2] ELSE 0,
                 !.ValorAtualizado = IF Len(valores) > 2 THEN valores[3] ELSE 0,
                 !.DeprecMes = IF Len(valores) > 3 THEN valores[4] ELSE 0,
                 !.DeprecExercicio = IF Len(valores) > 4 THEN valores[5] ELSE 0,
                 !.DeprecAcumulada = IF Len(valores) > 5 THEN valores[6] ELSE 0]
    IN  [r1 EXCEPT !.ValorResidual = ValorResidualDe(r1)]

\* Line 231-234: a 'Filial :' row.
StepFilial(st, row) ==
    [st EXCEPT !.filial_atual = padronizar_nome_filial(row[1].s)]

\* A slip in lines 237-239: the description is not refreshed.
StepContaSemDescricao(st, row, n) ==
    IF n < 2 THEN Raised(st)
    ELSE [st EXCEPT !.conta_contabil_atual = row[1].s]

\* Lines 237-239: a '1.2.3.' row; row.iloc[1] needs a second column.
StepConta(st, row, n) ==
    IF n < 2 THEN Raised(st)
    ELSE [st EXCEPT !.conta_contabil_atual = row[1].s,
                    !.descricao_conta_atual = IF notna(row[2]) THEN row[2].s ELSE ""]

\* The date test without its notna half: a missing date passes.
DataValidaSemNotna(data_aquisicao) ==
    data_aquisicao.nat \/ data_aquisicao.ano >= AnoMinimo

\* The date test of line 247.
DataValida(data_aquisicao) ==
    ~data_aquisicao.nat /\ data_aquisicao.ano >= AnoMinimo

\* An item branch in which a rejected date also forgets the pending item.
StepItemLimpaPendente(st, row, n, nome) ==
    IF n < 8 THEN Raised(st)
    ELSE LET data_aquisicao == to_datetime(row[8])
         IN  IF DataValida(data_aquisicao)
             THEN IF n < 10 THEN Raised(st)
                  ELSE LET info == ItemInfo(st, row, data_aquisicao, nome)
                       IN  [st EXCEPT !.last_data_row_info = <<info>>,
                                      !.dados_processados = Append(@, info)]
             ELSE [st EXCEPT !.last_data_row_info = <<>>]

\* Lines 245-265: an item-shaped row; row.iloc[7] and row.iloc[9] need the
\* columns H and J.
StepItem(st, row, n, nome) ==
    IF n < 8 THEN Raised(st)
    ELSE LET data_aquisicao == to_datetime(row[8])
         IN  IF DataValida(data_aquisicao)
             THEN IF n < 10 THEN Raised(st)
                  ELSE LET info == ItemInfo(st, row, data_aquisicao, nome)
                       IN  [st EXCEPT !.last_data_row_info = <<info>>,
                                      !.dados_processados = Append(@, info)]
             ELSE st

\* The 'R$' branch as the earlier version quoted in lines 194-207 had it:
\* every value line appends a record of its own.
StepValorAntigo(st, row, n) ==
    [st EXCEPT !.dados_processados =
                   Append(@, Preencher(ItemInfo(st, row, NaT, ""), Valores(row, n))),
               !.last_data_row_info = <<>>]

\* An 'R$' branch that leaves last_data_row_info set after writing.
StepValorSemReset(st, row, n) ==
    IF st.last_data_row_info # <<>>
    THEN LET valores == Valores(row, n)
             d == st.dados_processados
         IN  [st EXCEPT !.dados_processados =
                            IF d # <<>> THEN [d EXCEPT ![Len(d)] = Preencher(@, valores)]
                            ELSE d]
    ELSE st

\* Lines 268-281: an 'R$' row.
StepValor(st, row, n) ==
    IF st.last_data_row_info # <<>>
    THEN LET valores == Valores(row, n)
             d == st.dados_processados
             d1 == IF d # <<>>
                   THEN [d EXCEPT ![Len(d)] = Preencher(@, valores)]
                   ELSE d
         IN  [st EXCEPT !.dados_processados = d1, !.last_data_row_info = <<>>]
    ELSE st

\* The kind of a row, by the if/elif chain of lines 231-268 (the chain is
\* the same in the outer scan, lines 96-108, which has no 'R$' branch).
IsFilialRow(row) == notna(row[1]) /\ row[1].t = "filial"
IsContaRow(row) == ~IsFilialRow(row) /\ notna(row[1]) /\ row[1].t = "conta"
IsDigits6Row(row) == ~IsFilialRow(row) /\ ~IsContaRow(row) /\ notna(row[1]) /\ row[1].t = "digits6"
IsItemShaped(row, n) == IsDigits6Row(row) /\ n >= 3 /\ notna(row[3]) /\ isdigit(row[3])
IsValorRow(row, n) ==
    /\ ~IsFilialRow(row) /\ ~IsContaRow(row) /\ ~IsItemShaped(row, n)
    /\ ~(IsDigits6Row(row) /\ n < 3)
    /\ notna(row[1]) /\ row[1].t = "rs"

\* One iteration of the inner loop body (lines 229-281) on `row` of a sheet
\* of n columns.
StepRow(st, row, n, nome) ==
    IF IsFilialRow(row) THEN StepFilial(st, row)
    ELSE IF IsContaRow(row) THEN StepConta(st, row, n)
    ELSE IF IsDigits6Row(row) /\ n < 3 THEN Raised(st)
    ELSE IF IsItemShaped(row, n) THEN StepItem(st, row, n, nome)
    ELSE IF IsValorRow(row, n) THEN StepValor(st, row, n)
    ELSE st

\* Lines 225-227: the per-sheet reset.
StepSheet(st) ==
    [st EXCEPT !.filial_atual = NaoIdentificado,
               !.conta_contabil_atual = NaoIdentificado,
               !.descricao_conta_atual = NaoIdentificado]

\* Lines 220-221.
ScanInit ==
    [filial_atual |-> NaoIdentificado,
     conta_contabil_atual |-> NaoIdentificado,
     descricao_conta_atual |-> NaoIdentificado,
     dados_processados |-> <<>>,
     last_data_row_info |-> <<>>,
     raised |-> FALSE]

----------------------------------------------------------------------------
\* corrigir_filiais_nao_identificadas. Series.mode() returns the most
\* frequent values in ascending order, so [0] is the least of them; Ordem is
\* Python's order of the branch names that occur here.
Ordem ==
    <<"Filial A", "Filial B", "GW Saneamento", "GW Sistemas Matriz", "Não Identificado">>
Posicao(nome) == CHOOSE k \in 1..Len(Ordem) : Ordem[k] = nome

Contagem(df, nome) == Cardinality({k \in DOMAIN df : df[k].Filial = nome})

\* The mode taken over every record, the unidentified ones included.
ModaFiliaisSemFiltro(df) ==
    LET todas == {df[k].Filial : k \in DOMAIN df}
    IN  {f \in todas : \A g \in todas : Contagem(df, g) <= Contagem(df, f)}

\* df[df['Filial'] != 'Não Identificado']['Filial'].mode()
ModaFiliais(df) ==
    LET reais == {df[k].Filial : k \in {j \in DOMAIN df : df[j].Filial # NaoIdentificado}}
    IN  {f \in reais : \A g \in reais : Contagem(df, g) <= Contagem(df, f)}

corrigir_filiais_nao_identificadas(df_arquivo) ==
    IF df_arquivo = <<>> THEN df_arquivo
    ELSE LET contagem_filiais == ModaFiliais(df_arquivo)
         IN  IF contagem_filiais # {}
             THEN LET filial_predominante ==
                          CHOOSE f \in contagem_filiais :
                              \A g \in contagem_filiais : Posicao(f) <= Posicao(g)
                  IN  [k \in DOMAIN df_arquivo |->
                          IF df_arquivo[k].Filial = NaoIdentificado
                          THEN [df_arquivo[k] EXCEPT !.Filial = filial_predominante]
                          ELSE df_arquivo[k]]
             ELSE df_arquivo

\* Lines 286-301: df_final[colunas_ordenadas] keeps these columns only.
colunas_ordenadas ==
    {"Filial", "ContaContabil", "DescricaoConta", "DataAquisicao", "CodigoItem",
     "CodigoSubItem", "DescricaoItem", "ValorOriginal", "ValorAtualizado",
     "DeprecMes", "DeprecExercicio", "DeprecAcumulada", "ValorResidual"}

Colunas(df, cols) == [k \in DOMAIN df |-> [c \in cols |-> df[k][c]]]

\* The two messages of lines 303 and 305.
MsgNenhumDado(nome) == [tipo |-> "Nenhum dado relevante", arquivo |-> nome]
MsgErroCritico(nome) == [tipo |-> "Erro crítico", arquivo |-> nome]

\* Lines 283-305: what processar_planilha returns after the scan. dados is
\* <<>> for None and <<df>> for a DataFrame, erro likewise.
Retorno(st, nome) ==
    IF st.raised
    THEN [dados |-> <<>>, erro |-> <<MsgErroCritico(nome)>>]
    ELSE IF st.dados_processados # <<>>
    THEN [dados |-> <<corrigir_filiais_nao_identificadas(
                        Colunas(st.dados_processados, colunas_ordenadas))>>,
          erro |-> <<>>]
    ELSE [dados |-> <<>>, erro |-> <<MsgNenhumDado(nome)>>]

----------------------------------------------------------------------------
\* The rows the scan is fed with: one or more of each shape the if/elif
\* chain tells apart.
Brancas(k) == [j \in 1..k |-> NA]

LinhaFilial == <<Filial("Matriz")>> \o Brancas(9)
LinhaConta1 == <<Conta("1.2.3.01"), Text("Equip")>> \o Brancas(8)
LinhaConta2 == <<Conta("1.2.3.02")>> \o Brancas(9)
LinhaItem(h) ==
    <<Digits6("000101", 101), NA, DigitsN("7", 7), Text("Bomba"), NA, NA, NA, h, NA,
      DigitsN("1", 1)>>
LinhaValor1 == <<RS, Num(9), Num(8), Num(5), Num(1), Num(2), Num(3), Num(4), NA, NA>>
LinhaTexto == <<Text("Total")>> \o Brancas(9)
LinhaSemCodigo == <<Digits6("000101", 101)>> \o Brancas(9)

LinhasCompletas ==
    {LinhaFilial, LinhaConta1, LinhaConta2,
     LinhaItem(Date(2020)), LinhaItem(Date(1985)), LinhaItem(NA),
     LinhaValor1, Brancas(10), LinhaTexto, LinhaSemCodigo}

\* Width of a sheet_df: the report's ten columns.
Larguras == {10}
Linhas == [n \in Larguras |-> {SubSeq(r, 1, n) : r \in LinhasCompletas}]

NomeArquivo == "ativos.xlsx"

----------------------------------------------------------------------------
\* The scan, one row at a time.
Estado ==
    [filial_atual |-> filial_atual,
     conta_contabil_atual |-> conta_contabil_atual,
     descricao_conta_atual |-> descricao_conta_atual,
     dados_processados |-> dados_processados,
     last_data_row_info |-> last_data_row_info,
     raised |-> FALSE]

\* The kind of a row as section 4.2 of the specification names it.
Tipo(row, n) ==
    IF IsFilialRow(row) THEN "SectionHeader"
    ELSE IF IsContaRow(row) THEN "AccountHeader"
    ELSE IF IsItemShaped(row, n) /\ n >= 8 /\ DataValida(to_datetime(row[8])) THEN "ItemLine"
    ELSE IF IsValorRow(row, n) THEN "ValueLine"
    ELSE "Ignore"

Headers == {"SectionHeader", "AccountHeader"}
Tipos == Headers \cup {"ItemLine", "ValueLine", "Ignore"}

\* The rows of each kind, per sheet width.
LinhasDoTipo == [n \in Larguras |-> [t \in Tipos |-> {row \in Linhas[n] : Tipo(row, n) = t}]]

\* The variables of the batch loop and of the backfill, at rest while
\* another part of the program is looked at.
LoteFora ==
    /\ pcl = "off"
    /\ uploaded_files = <<>>
    /\ i = 0
    /\ all_data = <<>>
    /\ errors = <<>>
    /\ dados_combinados = <<>>
    /\ tela = <<>>
    /\ chamadas = <<>>

FilialFora == df_final = <<>> /\ df_corrigido = <<>>

FolhaFora == sheet_df = [ncols |-> 0, rows |-> <<>>] /\ idx = 0 /\ locais = ScanInit

ValorFora == celula = NA /\ convertido = <<>>

ScanFora ==
    /\ pc = "off"
    /\ ncols = 0
    /\ filial_atual = NaoIdentificado
    /\ conta_contabil_atual = NaoIdentificado
    /\ descricao_conta_atual = NaoIdentificado
    /\ dados_processados = <<>>
    /\ last_data_row_info = <<>>
    /\ retorno = <<>>
    /\ ultima = [tipo |-> "none", pendente |-> FALSE]
    /\ cabecalho = <<>>
    /\ semItem = FALSE
    /\ itemAqui = FALSE
    /\ origem = <<>>
    /\ preenchido = <<>>

Init ==
    /\ LoteFora
    /\ FilialFora
    /\ FolhaFora
    /\ ValorFora
    /\ pc = "open"
    /\ ncols = 0
    /\ filial_atual = NaoIdentificado
    /\ conta_contabil_atual = NaoIdentificado
    /\ descricao_conta_atual = NaoIdentificado
    /\ dados_processados = <<>>
    /\ last_data_row_info = <<>>
    /\ retorno = <<>>
    /\ ultima = [tipo |-> "none", pendente |-> FALSE]
    /\ cabecalho = <<>>
    /\ semItem = FALSE
    /\ itemAqui = FALSE
    /\ origem = <<>>
    /\ preenchido = <<>>

\* The function returns `r`: its locals go out of scope, the records it
\* scanned and their history stay for the claims to read.
Sair(r) ==
    /\ pc' = "returned"
    /\ retorno' = <<r>>
    /\ ncols' = 0
    /\ filial_atual' = NaoIdentificado
    /\ conta_contabil_atual' = NaoIdentificado
    /\ descricao_conta_atual' = NaoIdentificado
    /\ last_data_row_info' = <<>>
    /\ ultima' = [tipo |-> "none", pendente |-> FALSE]
    /\ cabecalho' = <<>>
    /\ semItem' = FALSE
    /\ itemAqui' = FALSE
    /\ UNCHANGED <<dados_processados, origem, preenchido>>

\* Line 86 raises (a corrupt workbook): line 305 returns the error.
AbrirFalha ==
    /\ pc = "open"
    /\ Sair(Retorno(Raised(ScanInit), NomeArquivo))
    /\ UNCHANGED <<loteVars, filialVars, folhaVars, valorVars>>

\* Lines 86 and 220-221: the workbook opens and the scan starts.
Abrir ==
    /\ pc = "open"
    /\ pc' = "scan"
    /\ dados_processados' = ScanInit.dados_processados
    /\ last_data_row_info' = ScanInit.last_data_row_info
    /\ UNCHANGED <<ncols, filial_atual, conta_contabil_atual, descricao_conta_atual,
                   retorno, ultima, cabecalho, semItem, itemAqui, origem, preenchido>>
    /\ UNCHANGED <<loteVars, filialVars, folhaVars, valorVars>>

\* Lines 223-227: the next worksheet is read, n columns wide.
NovaPlanilha(n) ==
    /\ pc = "scan"
    /\ ncols' = n
    /\ LET st == StepSheet(Estado)
       IN  /\ filial_atual' = st.filial_atual
           /\ conta_contabil_atual' = st.conta_contabil_atual
           /\ descricao_conta_atual' = st.descricao_conta_atual
    /\ cabecalho' = <<>>
    /\ itemAqui' = FALSE
    /\ UNCHANGED <<pc, dados_processados, last_data_row_info, retorno, ultima, semItem,
                   origem, preenchido>>
    /\ UNCHANGED <<loteVars, filialVars, folhaVars, valorVars>>

\* Line 224 raises on the next worksheet: line 305 returns the error.
NovaPlanilhaFalha ==
    /\ pc = "scan"
    /\ Sair(Retorno(Raised(Estado), NomeArquivo))
    /\ UNCHANGED <<loteVars, filialVars, folhaVars, valorVars>>

\* Lines 229-281 on one row, and line 305 when the row raises.
Linha(row) ==
    /\ pc = "scan"
    /\ ncols # 0
    /\ UNCHANGED <<loteVars, filialVars, folhaVars, valorVars>>
    /\ \E st \in {StepRow(Estado, row, ncols, NomeArquivo)}, tipo \in {Tipo(row, ncols)} :
       LET novo == Len(st.dados_processados) > Len(dados_processados)
       IN  /\ novo => Len(dados_processados) < MaxRegistros
           /\ origem' = IF novo THEN Append(origem, cabecalho) ELSE origem
           /\ preenchido' =
                  IF novo THEN Append(preenchido, <<>>)
                  ELSE IF tipo = "ValueLine" /\ last_data_row_info # <<>>
                          /\ dados_processados # <<>>
                  THEN [preenchido EXCEPT ![Len(preenchido)] = Append(@, itemAqui)]
                  ELSE preenchido
           /\ dados_processados' = st.dados_processados
           /\ IF st.raised
              THEN Sair(Retorno(st, NomeArquivo))
              ELSE /\ filial_atual' = st.filial_atual
                   /\ conta_contabil_atual' = st.conta_contabil_atual
                   /\ descricao_conta_atual' = st.descricao_conta_atual
                   /\ last_data_row_info' = st.last_data_row_info
                   /\ ultima' = [tipo |-> tipo, pendente |-> last_data_row_info # <<>>]
                   /\ cabecalho' = IF tipo = "AccountHeader" THEN <<row>> ELSE cabecalho
                   /\ semItem' = IF tipo \in Headers THEN TRUE
                                 ELSE IF tipo = "ItemLine" THEN FALSE ELSE semItem
                   /\ itemAqui' = IF tipo = "ItemLine" THEN TRUE ELSE itemAqui
                   /\ UNCHANGED <<pc, retorno, ncols>>

SectionHeader ==
    /\ ncols # 0
    /\ \E row \in LinhasDoTipo[ncols]["SectionHeader"] : Linha(row)
AccountHeader ==
    /\ ncols # 0
    /\ \E row \in LinhasDoTipo[ncols]["AccountHeader"] : Linha(row)
ItemLine ==
    /\ ncols # 0
    /\ \E row \in LinhasDoTipo[ncols]["ItemLine"] : Linha(row)
ValueLine ==
    /\ ncols # 0
    /\ \E row \in LinhasDoTipo[ncols]["ValueLine"] : Linha(row)
Ignore ==
    /\ ncols # 0
    /\ \E row \in LinhasDoTipo[ncols]["Ignore"] : Linha(row)

\* Lines 283-303: the worksheets are exhausted and the function returns.
Retornar ==
    /\ pc = "scan"
    /\ ncols # 0
    /\ Sair(Retorno(Estado, NomeArquivo))
    /\ UNCHANGED <<loteVars, filialVars, folhaVars, valorVars>>

Next ==
    \/ AbrirFalha
    \/ Abrir
    \/ \E n \in Larguras : NovaPlanilha(n)
    \/ NovaPlanilhaFalha
    \/ SectionHeader
    \/ AccountHeader
    \/ ItemLine
    \/ ValueLine
    \/ Ignore
    \/ Retornar

Spec == Init /\ [][Next]_vars


----------------------------------------------------------------------------
\* processar_planilha as a function of the whole file. A file is
\* [name, corrupt, sheets], a sheet [ncols, rows].
RECURSIVE ScanRows(_, _, _, _, _)
ScanRows(st, rows, k, n, nome) ==
    IF k > Len(rows) \/ st.raised THEN st
    ELSE ScanRows(StepRow(st, rows[k], n, nome), rows, k + 1, n, nome)

RECURSIVE ScanSheets(_, _, _, _)
ScanSheets(st, sheets, j, nome) ==
    IF j > Len(sheets) \/ st.raised THEN st
    ELSE ScanSheets(ScanRows(StepSheet(st), sheets[j].rows, 1, sheets[j].ncols, nome),
                    sheets, j + 1, nome)

\* Lines 220-281: the scan that starts over at every qualifying item line
\* of the outer scan.
InnerScan(file) == ScanSheets(ScanInit, file.sheets, 1, file.name)

\* Lines 96-281: one row of the outer scan. Its item branch reads the
\* columns H and J (lines 113 and 116) before it tests the date.
OuterRow(st, row, n, file) ==
    IF IsFilialRow(row) THEN st
    ELSE IF IsContaRow(row) THEN (IF n < 2 THEN Raised(st) ELSE st)
    ELSE IF IsDigits6Row(row) /\ n < 3 THEN Raised(st)
    ELSE IF IsItemShaped(row, n)
    THEN IF n < 10 THEN Raised(st)
         ELSE IF DataValida(to_datetime(row[8])) THEN InnerScan(file) ELSE st
    ELSE st

RECURSIVE OuterRows(_, _, _, _, _)
OuterRows(st, rows, k, n, file) ==
    IF k > Len(rows) \/ st.raised THEN st
    ELSE OuterRows(OuterRow(st, rows[k], n, file), rows, k + 1, n, file)

RECURSIVE OuterSheets(_, _, _)
OuterSheets(st, j, file) ==
    IF j > Len(file.sheets) \/ st.raised THEN st
    ELSE OuterSheets(OuterRows(st, file.sheets[j].rows, 1, file.sheets[j].ncols, file),
                     j + 1, file)

\* Lines 84-305.
processar_planilha(file) ==
    IF file.corrupt THEN Retorno(Raised(ScanInit), file.name)
    ELSE Retorno(OuterSheets(ScanInit, 1, file), file.name)

----------------------------------------------------------------------------
\* The files a batch is made of.
Planilha(n, rows) == [ncols |-> n, rows |-> [k \in DOMAIN rows |-> SubSeq(rows[k], 1, n)]]

ArquivoBom ==
    [name |-> "bom.xlsx", corrupt |-> FALSE,
     sheets |-> <<Planilha(10, <<LinhaFilial, LinhaConta1, LinhaItem(Date(2020)), LinhaValor1>>)>>]
ArquivoDuasPlanilhas ==
    [name |-> "duas.xlsx", corrupt |-> FALSE,
     sheets |-> <<Planilha(10, <<LinhaConta1, LinhaItem(Date(2020)), LinhaValor1>>),
                  Planilha(10, <<LinhaItem(Date(2020))>>)>>]
ArquivoCorrompido == [name |-> "corrompido.xlsx", corrupt |-> TRUE, sheets |-> <<>>]
ArquivoSemDados ==
    [name |-> "vazio.xlsx", corrupt |-> FALSE,
     sheets |-> <<Planilha(10, <<LinhaTexto, LinhaItem(Date(1985)), LinhaValor1>>)>>]
ArquivoEstreito ==
    [name |-> "estreito.xlsx", corrupt |-> FALSE,
     sheets |-> <<Planilha(4, <<LinhaItem(Date(2020))>>)>>]

\* Item lines with codes of their own, to tell the records of a file apart.
LinhaItemDe(cod, v) ==
    <<Digits6("000101", 101), NA, DigitsN(cod, v), Text("Bomba"), NA, NA, NA, Date(2020),
      NA, DigitsN("1", 1)>>
ArquivoOrdem ==
    [name |-> "ordem.xlsx", corrupt |-> FALSE,
     sheets |-> <<Planilha(10, <<LinhaItemDe("8", 8), LinhaValor1, LinhaItemDe("9", 9)>>),
                  Planilha(10, <<LinhaItemDe("10", 10), LinhaValor1>>)>>]

\* A complete item in a ten-column worksheet, then a worksheet of eight
\* columns with an item-shaped row whose date is before 1990.
ArquivoMisto ==
    [name |-> "misto.xlsx", corrupt |-> FALSE,
     sheets |-> <<Planilha(10, <<LinhaConta1, LinhaItem(Date(2020)), LinhaValor1>>),
                  Planilha(8, <<LinhaItem(Date(1985))>>)>>]

Arquivos ==
    {ArquivoBom, ArquivoDuasPlanilhas, ArquivoCorrompido, ArquivoSemDados, ArquivoEstreito,
     ArquivoOrdem, ArquivoMisto}

RECURSIVE SeqsAte(_, _)
SeqsAte(S, n) ==
    IF n = 0 THEN {<<>>}
    ELSE LET menores == SeqsAte(S, n - 1)
         IN  menores \cup {Append(q, x) : q \in {m \in menores : Len(m) = n - 1}, x \in S}

\* A DataFrame that is not None and not empty (line 422).
TemDados(r) == r.dados # <<>> /\ r.dados[1] # <<>>

\* A loop that stops at the first file that reports an error.
IteracaoInterrompe(dados_ate, erros_ate, k, files) ==
    LET r == processar_planilha(files[k])
    IN  [all_data |-> IF TemDados(r) THEN Append(dados_ate, r.dados[1]) ELSE dados_ate,
         errors |-> IF r.erro # <<>> THEN Append(erros_ate, r.erro[1]) ELSE erros_ate,
         i |-> IF r.erro # <<>> THEN Len(files) ELSE k]

\* Lines 421-425: one turn of the loop over uploaded_files, on the file at
\* position k; what it leaves in all_data, errors and the loop position.
Iteracao(dados_ate, erros_ate, k, files) ==
    LET r == processar_planilha(files[k])
    IN  [all_data |-> IF TemDados(r) THEN Append(dados_ate, r.dados[1]) ELSE dados_ate,
         errors |-> IF r.erro # <<>> THEN Append(erros_ate, r.erro[1]) ELSE erros_ate,
         i |-> k]

\* A concatenation that puts the later frames first.
RECURSIVE concat_invertido(_)
concat_invertido(frames) ==
    IF frames = <<>> THEN <<>> ELSE concat_invertido(Tail(frames)) \o Head(frames)

\* pd.concat(all_data, ignore_index=True)
RECURSIVE concat(_)
concat(frames) == IF frames = <<>> THEN <<>> ELSE Head(frames) \o concat(Tail(frames))

TemColuna(df, c) == \A k \in DOMAIN df : c \in DOMAIN df[k]

InitLote ==
    /\ ScanFora
    /\ FilialFora
    /\ FolhaFora
    /\ ValorFora
    /\ pcl = "loop"
    /\ uploaded_files \in SeqsAte(Arquivos, MaxArquivos)
    /\ i = 0
    /\ all_data = <<>>
    /\ errors = <<>>
    /\ dados_combinados = <<>>
    /\ tela = <<>>
    /\ chamadas = <<>>

\* Lines 418-425: the next file of the batch.
Processar ==
    /\ pcl = "loop"
    /\ i < Len(uploaded_files)
    /\ \E r \in {Iteracao(all_data, errors, i + 1, uploaded_files)} :
          /\ all_data' = r.all_data
          /\ errors' = r.errors
          /\ i' = r.i
    /\ chamadas' = Append(chamadas, i + 1)
    /\ UNCHANGED <<pcl, uploaded_files, dados_combinados, tela, scanVars, filialVars,
                   folhaVars, valorVars>>

\* Line 579: nothing was uploaded.
SemArquivos ==
    /\ pcl = "loop"
    /\ uploaded_files = <<>>
    /\ pcl' = "fim"
    /\ tela' = <<[st |-> "info", msg |-> "Por favor, carregue seus arquivos"]>>
    /\ UNCHANGED <<uploaded_files, i, all_data, errors, dados_combinados, chamadas,
                   scanVars, filialVars, folhaVars, valorVars>>

\* Lines 427-433: some file gave records; they are concatenated, the
\* success line is shown, and line 433 reads the column 'Arquivo'.
Combinar ==
    /\ pcl = "loop"
    /\ uploaded_files # <<>>
    /\ i = Len(uploaded_files)
    /\ all_data # <<>>
    /\ dados_combinados' = <<concat(all_data)>>
    /\ tela' = <<[st |-> "success", msg |-> Len(all_data)]>>
    /\ pcl' = IF TemColuna(concat(all_data), "Arquivo") THEN "painel" ELSE "KeyError"
    /\ UNCHANGED <<uploaded_files, i, all_data, errors, chamadas, scanVars, filialVars,
                   folhaVars, valorVars>>

\* Lines 572-574: no file gave records; every message is shown.
MostrarErros ==
    /\ pcl = "loop"
    /\ uploaded_files # <<>>
    /\ i = Len(uploaded_files)
    /\ all_data = <<>>
    /\ errors # <<>>
    /\ tela' = [k \in DOMAIN errors |-> [st |-> "error", msg |-> errors[k]]]
    /\ pcl' = "fim"
    /\ UNCHANGED <<uploaded_files, i, all_data, errors, dados_combinados, chamadas,
                   scanVars, filialVars, folhaVars, valorVars>>

NextLote == Processar \/ SemArquivos \/ Combinar \/ MostrarErros

SpecLote == InitLote /\ [][NextLote]_vars

----------------------------------------------------------------------------
\* corrigir_filiais_nao_identificadas on the records of one file.
Filiais == {NaoIdentificado, "Filial A", "Filial B"}
Registro(f) == [Filial |-> f, CodigoItem |-> "7"]

InitFilial ==
    /\ ScanFora
    /\ LoteFora
    /\ FolhaFora
    /\ ValorFora
    /\ df_final \in SeqsAte({Registro(f) : f \in Filiais}, MaxLinhas)
    /\ df_corrigido = <<>>

\* Line 302: the call.
Corrigir ==
    /\ df_corrigido = <<>>
    /\ df_corrigido' = <<corrigir_filiais_nao_identificadas(df_final)>>
    /\ UNCHANGED <<df_final, scanVars, loteVars, folhaVars, valorVars>>

NextFilial == Corrigir

SpecFilial == InitFilial /\ [][NextFilial]_vars

----------------------------------------------------------------------------
\* The row loop of lines 229-281 over one sheet given in advance, of any
\* width: narrow sheets are where row.iloc[k] runs past the last column.
MaxFolha == 3

LargurasFolha == {2, 8, 10}

\* Two more item-shaped rows: a text and an Excel serial number in column H.
LinhaItemTexto == LinhaItem(Text("s/d"))
LinhaItemSerial == LinhaItem(Num(43831))

LinhasFolha ==
    [n \in LargurasFolha |->
        {SubSeq(r, 1, n) : r \in LinhasCompletas \cup {LinhaItemTexto, LinhaItemSerial}}]

InitFolha ==
    /\ ScanFora
    /\ LoteFora
    /\ FilialFora
    /\ ValorFora
    /\ \E n \in LargurasFolha :
          sheet_df \in {[ncols |-> n, rows |-> q] : q \in SeqsAte(LinhasFolha[n], MaxFolha)}
    /\ idx = 0
    /\ locais = StepSheet(ScanInit)

\* The next row of the sheet, when the loop body runs to its end.
LerLinha ==
    /\ idx < Len(sheet_df.rows)
    /\ ~locais.raised
    /\ \E st \in {StepRow(locais, sheet_df.rows[idx + 1], sheet_df.ncols, NomeArquivo)} :
          /\ ~st.raised
          /\ locais' = st
    /\ idx' = idx + 1
    /\ UNCHANGED <<sheet_df, scanVars, loteVars, filialVars, valorVars>>

\* The next row of the sheet, when the loop body raises: the scan ends in
\* the except clause of line 304.
LinhaFalha ==
    /\ idx < Len(sheet_df.rows)
    /\ ~locais.raised
    /\ \E st \in {StepRow(locais, sheet_df.rows[idx + 1], sheet_df.ncols, NomeArquivo)} :
          /\ st.raised
          /\ locais' = st
    /\ idx' = idx + 1
    /\ UNCHANGED <<sheet_df, scanVars, loteVars, filialVars, valorVars>>

NextFolha == LerLinha \/ LinhaFalha

SpecFolha == InitFolha /\ [][NextFolha]_vars

----------------------------------------------------------------------------
\* The dataset processar_planilha returned, <<>> when it returned None.
Devolvidos == IF retorno # <<>> /\ retorno[1].dados # <<>> THEN retorno[1].dados[1] ELSE <<>>

\* C1: a record is in the output only if both its item line and a value
\* line for it were observed (an item line with no value line gives none).
C1_RegistroSoComValor ==
    pc = "returned" => \A k \in DOMAIN Devolvidos : preenchido[k] # <<>>

\* C2: a value line that follows a section or account header with no item
\* line in between fills no record and changes no field of any record.
C2_CabecalhoLimpaPendente ==
    [][(ValueLine /\ semItem) => dados_processados' = dados_processados]_vars

\* C3: the assembler state is per worksheet: no value line writes a record
\* whose item line was read in an earlier worksheet.
C3_EstadoPorPlanilha ==
    \A k \in DOMAIN preenchido : \A j \in DOMAIN preenchido[k] : preenchido[k][j]

\* C4: a value line that arrives with no pending item emits no record,
\* changes no record and raises no error: the scan goes on.
C4_ValorSemPendente ==
    [][(ValueLine /\ last_data_row_info = <<>>) =>
           /\ dados_processados' = dados_processados
           /\ last_data_row_info' = <<>>
           /\ pc' = "scan"
           /\ retorno' = retorno]_vars

\* C4 witness: a value line has just been handled with no item pending.
C4_Witness == pc = "scan" /\ ultima.tipo = "ValueLine" /\ ~ultima.pendente

Residual(r) == r.ValorResidual = r.ValorAtualizado - r.DeprecAcumulada

\* C5: in every record, during the scan and in the returned dataset,
\* 'Valor Residual' is 'Valor atualizado' minus 'Deprec. Acumulada'.
C5_ValorResidual ==
    /\ \A k \in DOMAIN dados_processados : Residual(dados_processados[k])
    /\ \A k \in DOMAIN Devolvidos : Residual(Devolvidos[k])

\* C5 witness: a returned record that a value line filled with amounts.
C5_Witness ==
    /\ pc = "returned"
    /\ \E k \in DOMAIN Devolvidos :
          /\ preenchido[k] # <<>>
          /\ Devolvidos[k].DeprecAcumulada # 0
          /\ Devolvidos[k].ValorAtualizado # Devolvidos[k].ValorOriginal
          /\ Devolvidos[k].ValorResidual # 0

\* C6: every record of the returned dataset carries its source file's name.
C6_ArquivoNoRegistro ==
    \A k \in DOMAIN Devolvidos :
        "Arquivo" \in DOMAIN Devolvidos[k] /\ Devolvidos[k]["Arquivo"] = NomeArquivo

\* The account code and description an AccountHeader row states; none yet
\* in the sheet is the default of lines 226-227.
ContaDe(h) == IF h = <<>> THEN NaoIdentificado ELSE h[1][1].s
DescricaoDe(h) ==
    IF h = <<>> THEN NaoIdentificado
    ELSE IF h[1][2].t = "na" THEN "" ELSE h[1][2].s

\* C9: every record carries the code and description of the last
\* AccountHeader row before its item line in the sheet, and the current
\* account is that of the sheet's last AccountHeader whatever rows followed.
C9_ContaDoCabecalho ==
    /\ \A k \in DOMAIN dados_processados :
          /\ dados_processados[k].ContaContabil = ContaDe(origem[k])
          /\ dados_processados[k].DescricaoConta = DescricaoDe(origem[k])
    /\ pc = "scan" =>
          /\ conta_contabil_atual = ContaDe(cabecalho)
          /\ descricao_conta_atual = DescricaoDe(cabecalho)

\* C9 witness: two records under one account header that replaced another,
\* the first of them already filled.
C9_Witness ==
    /\ pc = "scan"
    /\ Len(dados_processados) = 2
    /\ origem[1] = <<LinhaConta2>>
    /\ origem[2] = <<LinhaConta2>>
    /\ preenchido[1] # <<>>
    /\ dados_processados[2].DescricaoConta = ""

----------------------------------------------------------------------------
\* The batch: what the page shows and what it combines.
Rendida == pcl \in {"fim", "painel", "KeyError"}

Resultado(k) == processar_planilha(uploaded_files[k])

\* The files of the batch whose processing failed.
Falhas ==
    {k \in DOMAIN uploaded_files :
        Resultado(k).erro # <<>> /\ Resultado(k).erro[1].tipo = "Erro crítico"}

NaTela(msg) == \E j \in DOMAIN tela : tela[j].st = "error" /\ tela[j].msg = msg

\* C7: once the page is rendered, the error message of every file whose
\* processing failed is shown to the user, also when other files of the
\* batch gave records.
C7_ErroReportado == Rendida => \A k \in Falhas : NaTela(Resultado(k).erro[1])

\* The records of the first n files of the batch, in upload order.
RECURSIVE RegistrosAte(_)
RegistrosAte(n) ==
    IF n = 0 THEN <<>>
    ELSE RegistrosAte(n - 1) \o
         (IF Resultado(n).dados # <<>> THEN Resultado(n).dados[1] ELSE <<>>)

\* C8: every file of the batch is processed exactly once, in upload order,
\* whatever the files before it gave; the loop ends only after the last
\* file; and the combined dataset holds the records of every file that
\* yielded records.
C8_LoteCompleto ==
    /\ chamadas = [k \in 1..i |-> k]
    /\ i <= Len(uploaded_files)
    /\ concat(all_data) = RegistrosAte(i)
    /\ Rendida => i = Len(uploaded_files)
    /\ pcl \in {"painel", "KeyError"} =>
           dados_combinados = <<RegistrosAte(Len(uploaded_files))>>
    /\ pcl = "fim" => RegistrosAte(Len(uploaded_files)) = <<>>

C8_Witness ==
    /\ uploaded_files = <<ArquivoCorrompido, ArquivoSemDados, ArquivoBom>>
    /\ Rendida
    /\ chamadas = <<1, 2, 3>>
    /\ dados_combinados = <<processar_planilha(ArquivoBom).dados[1]>>
    /\ Len(dados_combinados[1]) = 1

----------------------------------------------------------------------------
\* The backfill of the branch.
Reais(df) == {k \in DOMAIN df : df[k].Filial # NaoIdentificado}

MaisFrequente(df, f) ==
    /\ f # NaoIdentificado
    /\ \A k \in Reais(df) : Contagem(df, df[k].Filial) <= Contagem(df, f)

\* C10: when some record of the file has a real branch, every record with
\* 'Não Identificado' gets the most frequent real branch of the file and
\* none is left unidentified, and the records with a real branch are
\* unchanged; when no record has a real branch nothing changes.
C10_Backfill ==
    df_corrigido # <<>> =>
        LET out == df_corrigido[1]
        IN  /\ DOMAIN out = DOMAIN df_final
            /\ IF Reais(df_final) # {}
               THEN \A k \in DOMAIN df_final :
                       IF k \in Reais(df_final) THEN out[k] = df_final[k]
                       ELSE /\ MaisFrequente(df_final, out[k].Filial)
                            /\ out[k] = [df_final[k] EXCEPT !.Filial = out[k].Filial]
               ELSE out = df_final

C10_Witness ==
    /\ df_final = <<Registro(NaoIdentificado), Registro("Filial A"),
                    Registro("Filial A"), Registro(NaoIdentificado)>>
    /\ df_corrigido = <<<<Registro("Filial A"), Registro("Filial A"),
                          Registro("Filial A"), Registro("Filial A")>>>>

----------------------------------------------------------------------------
\* converter_valor on its own, over short texts and the texts of the form
\* 'R$ X.XXX,YY'.
MaxTexto == 4

Caracteres == {"R", "$", " ", "0", "1", "5", ".", ",", "-"}
DigitosForma == {"0", "1", "5"}

FormaBR(a, b, c, d, e, f) == <<"R", "$", " ", a, ".", b, c, d, ",", e, f>>
ExemploBR == FormaBR("1", "2", "3", "4", "5", "6")

Textos ==
    SeqsAte(Caracteres, MaxTexto) \cup {ExemploBR} \cup
    {FormaBR(a, b, c, d, e, f) : a \in DigitosForma \ {"0"}, b \in DigitosForma,
                                 c \in DigitosForma, d \in DigitosForma,
                                 e \in DigitosForma, f \in DigitosForma}

InitValor ==
    /\ ScanFora
    /\ LoteFora
    /\ FilialFora
    /\ FolhaFora
    /\ celula \in {Str(t) : t \in Textos} \cup {NA, Num(7)}
    /\ convertido = <<>>

\* Lines 51-60: the call returns from one of the first three returns.
Converter ==
    /\ convertido = <<>>
    /\ celula.t = "str" => float(valor_str(celula.s)).ok
    /\ convertido' = <<converter_valor(celula)>>
    /\ UNCHANGED <<celula, scanVars, loteVars, filialVars, folhaVars>>

\* Lines 61-62: float() raised ValueError and the call returns 0.0.
ConverterExcecao ==
    /\ convertido = <<>>
    /\ celula.t = "str"
    /\ ~float(valor_str(celula.s)).ok
    /\ convertido' = <<converter_valor(celula)>>
    /\ UNCHANGED <<celula, scanVars, loteVars, filialVars, folhaVars>>

NextValor == Converter \/ ConverterExcecao

SpecValor == InitValor /\ [][NextValor]_vars

----------------------------------------------------------------------------
\* The rows of sheet_df read so far.
Lidas == 1..idx
LinhaLida(k) == sheet_df.rows[k]

\* Column H of an item-shaped row holds something that stands for a date:
\* a date cell or a number, not a blank and not a text without a date.
DataLegivel(row) == Len(row) >= 8 /\ row[8].t \in {"date", "num"}

ItensComDataLegivel ==
    {k \in Lidas : IsItemShaped(LinhaLida(k), sheet_df.ncols) /\ DataLegivel(LinhaLida(k))}

\* C11: an item-shaped row whose acquisition date is missing or is not a
\* date gives no record, so there are no more records than item-shaped rows
\* with a date, and every record carries a valid acquisition date.
C11_SemDataSemRegistro ==
    /\ Len(locais.dados_processados) <= Cardinality(ItensComDataLegivel)
    /\ \A k \in DOMAIN locais.dados_processados :
          locais.dados_processados[k].DataAquisicao >= AnoMinimo

C11_Witness ==
    /\ sheet_df = [ncols |-> 10,
                   rows |-> <<LinhaItem(NA), LinhaItemTexto, LinhaItem(Date(2020))>>]
    /\ idx = 3
    /\ Len(locais.dados_processados) = 1
    /\ locais.dados_processados[1].DataAquisicao = 2020

----------------------------------------------------------------------------
\* The amount a numeral stands for under the Brazilian convention, read by
\* the place of each digit: an optional '-', digits, at most one ',' before
\* the decimals, at least one digit; every other text stands for nothing
\* and is worth 0.
RECURSIVE ValorPosicional(_)
ValorPosicional(ds) ==
    IF ds = <<>> THEN 0
    ELSE ValorDigito(ds[Len(ds)]) + 10 * ValorPosicional(SubSeq(ds, 1, Len(ds) - 1))

LeituraBR(s) ==
    LET negativo == s # <<>> /\ s[1] = "-"
        corpo == IF negativo THEN Tail(s) ELSE s
        virgulas == {k \in DOMAIN corpo : corpo[k] = ","}
        digitos == {k \in DOMAIN corpo : corpo[k] \in Digitos}
        numeral == /\ virgulas \cup digitos = DOMAIN corpo
                   /\ Cardinality(virgulas) <= 1
                   /\ digitos # {}
        decimais == IF virgulas = {} THEN 0
                    ELSE Len(corpo) - (CHOOSE k \in virgulas : TRUE)
        modulo == ValorPosicional(SelectSeq(corpo, LAMBDA c : c \in Digitos))
    IN  IF numeral THEN Decimal(IF negativo THEN 0 - modulo ELSE modulo, decimais)
        ELSE Decimal(0, 0)

\* The text of the cell without currency symbol and surrounding blanks.
SemMoeda == strip(replace_RS(celula.s))

EhFormaBR(s) ==
    /\ Len(s) = 11
    /\ <<s[1], s[2], s[3], s[5], s[9]>> = <<"R", "$", " ", ".", ",">>
    /\ {s[4], s[6], s[7], s[8], s[10], s[11]} \subseteq Digitos

\* C12: for every text, the currency symbol and the blanks around it do not
\* count; with both '.' and ',' the '.' are thousands separators and ',' is
\* the decimal point; with no '.' a ',' is the decimal point; 'R$ X.XXX,YY'
\* gives X XXX units and YY hundredths; and a text that is no numeral gives
\* 0 and the call returns. (Blanks left at an end once the thousands
\* separators are gone are surrounding blanks too.)
C12_ConvencaoBrasileira ==
    (convertido # <<>> /\ celula.t = "str") =>
        LET r == convertido[1]
            s == celula.s
        IN  /\ r = converter_valor(Str(<<"R", "$", " ">> \o s \o <<" ">>))
            /\ (contem(SemMoeda, ".") /\ contem(SemMoeda, ",")) =>
                   r = LeituraBR(strip(remover(SemMoeda, ".")))
            /\ ~contem(SemMoeda, ".") => r = LeituraBR(SemMoeda)
            /\ EhFormaBR(s) =>
                   r = Decimal(100 * ValorPosicional(<<s[4], s[6], s[7], s[8]>>)
                                   + ValorPosicional(<<s[10], s[11]>>), 2)
            /\ (\E k \in DOMAIN SemMoeda : SemMoeda[k] \notin Digitos \cup {".", ",", "-", " "}) =>
                   r = Decimal(0, 0)

C12_Witness ==
    /\ celula = Str(ExemploBR)
    /\ convertido = <<[m |-> 123456, e |-> 2]>>

----------------------------------------------------------------------------
\* The item codes of a workbook's qualifying item lines, worksheet after
\* worksheet and row after row.
RECURSIVE CodigosDasLinhas(_, _, _)
CodigosDasLinhas(rows, n, k) ==
    IF k > Len(rows) THEN <<>>
    ELSE (IF Tipo(rows[k], n) = "ItemLine" THEN <<rows[k][3].s>> ELSE <<>>)
         \o CodigosDasLinhas(rows, n, k + 1)

RECURSIVE CodigosDasPlanilhas(_, _)
CodigosDasPlanilhas(sheets, j) ==
    IF j > Len(sheets) THEN <<>>
    ELSE CodigosDasLinhas(sheets[j].rows, sheets[j].ncols, 1)
         \o CodigosDasPlanilhas(sheets, j + 1)

\* The same for the files of the batch up to the n-th, in upload order; a
\* file that gave no dataset has no records.
RECURSIVE CodigosAte(_)
CodigosAte(n) ==
    IF n = 0 THEN <<>>
    ELSE CodigosAte(n - 1) \o
         (IF Resultado(n).dados # <<>>
          THEN CodigosDasPlanilhas(uploaded_files[n].sheets, 1) ELSE <<>>)

CodigosDe(df) == [k \in DOMAIN df |-> df[k].CodigoItem]

\* C13: the combined dataset lists the records file by file in processing
\* order and, within a file, worksheet by worksheet and item line by item
\* line; none is missing, moved or repeated.
C13_OrdemDosRegistros ==
    pcl \in {"painel", "KeyError"} =>
        CodigosDe(dados_combinados[1]) = CodigosAte(Len(uploaded_files))

C13_Witness ==
    /\ uploaded_files = <<ArquivoOrdem, ArquivoCorrompido, ArquivoBom>>
    /\ pcl \in {"painel", "KeyError"}
    /\ CodigosDe(dados_combinados[1]) = <<"8", "9", "10", "7">>

----------------------------------------------------------------------------
\* The row the step from this state to the next reads, and its kind.
LinhaDoPasso == sheet_df.rows[idx + 1]
TipoDoPasso == Tipo(LinhaDoPasso, sheet_df.ncols)
Passo == idx < Len(sheet_df.rows) /\ idx' = idx + 1

\* C14: a row that is neither section header, account header, item line nor
\* value line changes nothing: branch, account, pending item and records
\* are as before and the scan goes on.
C14_IgnoreSemEfeito ==
    [][(Passo /\ TipoDoPasso = "Ignore") => locais' = locais]_vars

----------------------------------------------------------------------------
\* What one pass of the inner scan over all worksheets returns.
PassagemUnica(file) == Retorno(InnerScan(file), file.name)

TemItemQualificado(file) == CodigosDasPlanilhas(file.sheets, 1) # <<>>

\* C15: for a workbook that opens, the nested rescan changes nothing: with
\* a qualifying item line the result is that of a single pass of the inner
\* scan, one record per qualifying item line; with none it is the 'no
\* relevant data' message and no dataset.
C15_RescanSemEfeito ==
    \A k \in 1..i :
        LET file == uploaded_files[k]
        IN  ~file.corrupt =>
                IF TemItemQualificado(file)
                THEN /\ Resultado(k) = PassagemUnica(file)
                     /\ Resultado(k).dados # <<>>
                     /\ CodigosDe(Resultado(k).dados[1]) = CodigosDasPlanilhas(file.sheets, 1)
                ELSE Resultado(k) = [dados |-> <<>>, erro |-> <<MsgNenhumDado(file.name)>>]

----------------------------------------------------------------------------
\* An item-shaped row turned down for its date: column H is blank, holds no
\* date, or holds a date before 1990 (a bare number counts from 1970).
Rejeitada(row, n) ==
    /\ IsItemShaped(row, n)
    /\ n >= 8
    /\ ~(row[8].t = "date" /\ row[8].v >= AnoMinimo)

\* The amounts of a value line, by column: C original, D updated, E month,
\* F year, G accumulated.
ComValores(r, row) ==
    [r EXCEPT !.ValorOriginal = row[3].v,
              !.ValorAtualizado = row[4].v,
              !.DeprecMes = row[5].v,
              !.DeprecExercicio = row[6].v,
              !.DeprecAcumulada = row[7].v,
              !.ValorResidual = row[4].v - row[7].v]

\* C16: an item-shaped row rejected for its date leaves the records and the
\* pending item as they were, and a value line that comes next fills the
\* record of the item that was pending before the rejected row.
C16_RejeitadaSemEfeito ==
    [][/\ (Passo /\ Rejeitada(LinhaDoPasso, sheet_df.ncols)) => locais' = locais
       /\ (/\ Passo
           /\ idx >= 1
           /\ Rejeitada(LinhaLida(idx), sheet_df.ncols)
           /\ TipoDoPasso = "ValueLine"
           /\ locais.last_data_row_info # <<>>)
          => /\ Len(locais'.dados_processados) = Len(locais.dados_processados)
             /\ locais'.dados_processados[Len(locais.dados_processados)]
                    = ComValores(locais.last_data_row_info[1], LinhaDoPasso)
             /\ locais'.last_data_row_info = <<>>]_vars

C16_Witness ==
    /\ sheet_df = [ncols |-> 10,
                   rows |-> <<LinhaItem(Date(2020)), LinhaItem(Date(1985)), LinhaValor1>>]
    /\ idx = 3
    /\ Len(locais.dados_processados) = 1
    /\ locais.dados_processados[1].ValorAtualizado = 5
    /\ locais.last_data_row_info = <<>>

----------------------------------------------------------------------------
\* The monetary fields of a record.
Montantes(r) ==
    <<r.ValorOriginal, r.ValorAtualizado, r.DeprecMes, r.DeprecExercicio,
      r.DeprecAcumulada, r.ValorResidual>>

Escrito(k) == preenchido[k] # <<>>

\* A pending item is the last record of the list, not yet written.
PendenteNoFim ==
    last_data_row_info # <<>> =>
        /\ dados_processados # <<>>
        /\ dados_processados[Len(dados_processados)] = last_data_row_info[1]
        /\ ~Escrito(Len(dados_processados))
        /\ Montantes(last_data_row_info[1]) = <<0, 0, 0, 0, 0, 0>>

\* C17: a record is written by at most one value line; once written, no
\* later row of any worksheet changes any of its fields; and a pending item
\* is always the last record, its amounts still zero.
C17_EscritoUmaVez ==
    /\ [](PendenteNoFim /\ \A k \in DOMAIN preenchido : Len(preenchido[k]) <= 1)
    /\ [][\A k \in DOMAIN dados_processados :
             Escrito(k) => /\ k \in DOMAIN dados_processados'
                           /\ dados_processados'[k] = dados_processados[k]]_vars

C17_Witness ==
    /\ pc = "scan"
    /\ Len(dados_processados) = 2
    /\ Len(preenchido[1]) = 1
    /\ dados_processados[1].ValorAtualizado = 5
    /\ last_data_row_info # <<>>
    /\ ultima.tipo = "AccountHeader"

=============================================================================
